---- MODULE Spec2Model ----
(***************************************************************************)
(* Model of handler.py: the RunPod serverless handler that turns a source  *)
(* image and a driving audio into a talking-head video by shelling out to  *)
(* ffprobe, ffmpeg and the Hallo inference script.                         *)
(*                                                                         *)
(* One behaviour is one invocation of handler(event).  The request and the *)
(* environment (HTTP servers, external tools, the file system) are chosen  *)
(* nondeterministically; the handler's control flow is followed statement  *)
(* by statement through the program counter pc.                            *)
(***************************************************************************)
EXTENDS Integers, FiniteSets, Sequences, TLC

\* Period of the repeating body an endless HTTP response is modelled by.
StreamPeriod == 2

\* handler.py:109  os.path.getsize(output_path) > 10000
MIN_SIZE == 10000

\* The four request keys handler looks at (handler.py:152-175).
Keys == {"image_base64", "image_url", "audio_base64", "audio_url"}

\* Formats in which the caller may supply the driving audio (docstring, l.127).
AudioFormats == {"wav", "mp3"}

\* Sizes the model subprocess may leave in output.mp4.
OutputSizes == {0, MIN_SIZE, MIN_SIZE + 1}

\* What ffprobe may print on stdout: nothing, a non-number, or a number.
ProbeStdouts == {"", "N/A", "3.5"}

VARIABLES
    eventIsDict,     \* event has a .get method (it is a dict)
    jobInput,        \* event.get('input', {}): [isMap, keys]
    audioFormat,     \* the real format of the audio the caller supplied
    pc,              \* the handler's position
    tmpdir,          \* "none" | "exists" | "removed"
    files,           \* names of the files present in tmpdir
    outputSize,      \* size of output.mp4 when it exists
    streamPos,       \* position in the body of the HTTP response being read
    downloads,       \* the inputs ("image", "audio") a download was attempted for
    got,             \* how each input's acquisition ended, "none" before it
    calls,           \* number of ffprobe, ffmpeg and inference subprocesses started
    probeLog,        \* the get_duration calls so far: [path, outcome, result]
    transcode,       \* outcome of the ffmpeg run, kind "none" before it
    modelRun,        \* outcome of the inference subprocess, kind "none" before it
    durations,       \* [audio, output]: values get_duration returned (tenths of s)
    pending,         \* what the inner try block is leaving with: [kind, value]
    response         \* what handler returned; the empty function before return

vars == <<eventIsDict, jobInput, audioFormat, pc, tmpdir, files, outputSize,
          streamPos, downloads, got, calls, probeLog, transcode, modelRun,
          durations, pending, response>>

NoResponse == [k \in {} |-> ""]
NoPending == [kind |-> "none", value |-> NoResponse]
NoTranscode == [kind |-> "none", rc |-> 0, wrote |-> FALSE]
NoModelRun == [kind |-> "none", rc |-> 0, wrote |-> FALSE, size |-> 0]

Init ==
    /\ eventIsDict \in BOOLEAN
    /\ jobInput \in [isMap : {TRUE}, keys : SUBSET Keys]
                    \cup {[isMap |-> FALSE, keys |-> {}]}
    /\ audioFormat \in AudioFormats
    /\ pc = "start"
    /\ tmpdir = "none"
    /\ files = {}
    /\ outputSize = 0
    /\ streamPos = 0
    /\ downloads = {}
    /\ got = [image |-> "none", audio |-> "none"]
    /\ calls = [probe |-> 0, transcode |-> 0, model |-> 0]
    /\ probeLog = <<>>
    /\ transcode = NoTranscode
    /\ modelRun = NoModelRun
    /\ durations = [audio |-> -1, output |-> -1]
    /\ pending = NoPending
    /\ response = NoResponse

(***************************************************************************)
(* Paths.  A path inside tmpdir is its file name, split at the last dot.   *)
(***************************************************************************)
\* handler.py:147-149
image_path == [stem |-> "source", ext |-> "jpg"]
audio_path == [stem |-> "audio", ext |-> "mp3"]
output_path == [stem |-> "output", ext |-> "mp4"]

\* str.lower() on an extension (handler.py:68)
Lower(s) == CASE s = "WAV" -> "wav" [] s = "MP3" -> "mp3" [] OTHER -> s

\* handler.py:68  audio_path.lower().endswith('.wav')
EndsWithWav(p) == Lower(p.ext) = "wav"

\* handler.py:69  audio_path.rsplit('.', 1)[0] + '.wav'
WavOf(p) == [stem |-> p.stem, ext |-> "wav"]

\* handler.py:67-69  the path handed to the model as --driving_audio
wav_path == IF ~EndsWithWav(audio_path) THEN WavOf(audio_path) ELSE audio_path

(***************************************************************************)
(* Responses.                                                              *)
(***************************************************************************)
\* handler.py:160,162,173,175,186,190
ErrorResponse(msg) == [error |-> msg]

\* handler.py:216-219
ExceptionResponse(msg) == [error |-> msg, traceback |-> "traceback"]

\* handler.py:198-206
SuccessResponse(duration, size) ==
    [video_base64 |-> "base64(output.mp4)", duration |-> duration, size_bytes |-> size]

Return(r) == [kind |-> "return", value |-> r]
Raise(msg) == [kind |-> "raise", value |-> msg]

\* Mutation: the exception is re-raised to the caller.
OuterExcept_reraise(msg) == [pc |-> "raised", response |-> NoResponse]

\* handler.py:212-219: except Exception turns the exception into a response
OuterExcept(msg) == [pc |-> "done", response |-> ExceptionResponse(msg)]

(***************************************************************************)
(* Input acquisition (handler.py:151-175).                                 *)
(***************************************************************************)
Input ==
    [image |-> [path |-> image_path, b64 |-> "image_base64", url |-> "image_url",
                failed |-> "Failed to download image",
                missing |-> "No image provided (image_base64 or image_url required)",
                get |-> "get_image", req |-> "req_image", body |-> "body_image",
                next |-> "get_audio"],
     audio |-> [path |-> audio_path, b64 |-> "audio_base64", url |-> "audio_url",
                failed |-> "Failed to download audio",
                missing |-> "No audio provided (audio_base64 or audio_url required)",
                get |-> "get_audio", req |-> "req_audio", body |-> "body_audio",
                next |-> "probe_input"]]

\* Mutation: the URL key is looked at before the base64 key.
Source_url_first(keys, b64, url) ==
    IF url \in keys THEN "url" ELSE IF b64 \in keys THEN "base64" ELSE "none"

\* Mutation: the final else is missing, an absent input is treated as a URL.
Source_no_else(keys, b64, url) ==
    IF b64 \in keys THEN "base64" ELSE "url"

\* The if / elif / else over the two keys of one input (handler.py:152-162, 165-175).
Source(keys, b64, url) ==
    IF b64 \in keys THEN "base64" ELSE IF url \in keys THEN "url" ELSE "none"

(***************************************************************************)
(* get_duration (handler.py:37-46).  An ffprobe run either cannot start,   *)
(* times out, or exits with a code and some stdout.                        *)
(***************************************************************************)
ProbeOutcomes ==
    {[kind |-> "missing", rc |-> 1, stdout |-> ""],
     [kind |-> "timeout", rc |-> 1, stdout |-> ""]}
    \cup [kind : {"exited"}, rc : {0, 1}, stdout : ProbeStdouts]

\* float(s.strip()) succeeds
IsNumeric(s) == s = "3.5"

\* float(s.strip()), in tenths of a second
ParseFloat(s) == IF s = "3.5" THEN 35 ELSE 0

\* Mutation: a failed probe is reported as -0.1 s instead of 0.0 s.
get_duration_negative(o) ==
    IF o.kind = "exited" /\ IsNumeric(o.stdout) THEN ParseFloat(o.stdout) ELSE -1

\* handler.py:39-46: the return code is never read; any exception gives 0.0
get_duration(o) ==
    IF o.kind = "exited" /\ IsNumeric(o.stdout) THEN ParseFloat(o.stdout) ELSE 0

(***************************************************************************)
(* convert_audio_to_wav (handler.py:49-60).                                *)
(***************************************************************************)
TranscodeOutcomes ==
    {[kind |-> "missing", rc |-> 1, wrote |-> FALSE]}
    \cup [kind : {"timeout"}, rc : {1}, wrote : BOOLEAN]
    \cup [kind : {"exited"}, rc : {0, 1}, wrote : BOOLEAN]

\* handler.py:51-60: the return code is never read; the result is
\* os.path.exists(output_path) unless subprocess.run raised
convert_audio_to_wav(o, fs, out) == o.kind = "exited" /\ out \in fs

(***************************************************************************)
(* run_hallo_inference, the subprocess part (handler.py:91-118).           *)
(***************************************************************************)
ModelOutcomes ==
    [kind : {"oserror"}, rc : {1}, wrote : {FALSE}, size : {0}]
    \cup [kind : {"timeout", "exited"}, rc : {1}, wrote : {FALSE}, size : {0}]
    \cup [kind : {"timeout", "exited"}, rc : {1}, wrote : {TRUE}, size : OutputSizes]
    \cup [kind : {"exited"}, rc : {0}, wrote : {FALSE}, size : {0}]
    \cup [kind : {"exited"}, rc : {0}, wrote : {TRUE}, size : OutputSizes]

\* Mutation: >= instead of >.
OutputValid_ge(fs, size) == output_path \in fs /\ size >= MIN_SIZE

\* handler.py:109
OutputValid(fs, size) == output_path \in fs /\ size > MIN_SIZE

\* Mutation: the return code check of handler.py:100-103 is missing.
InferenceResult_no_rc(o, fs, size) ==
    IF o.kind = "oserror" THEN FALSE ELSE OutputValid(fs, size)

\* handler.py:100-118: False on TimeoutExpired, on any other exception and on a
\* non-zero return code; otherwise the output check
InferenceResult(o, fs, size) ==
    IF o.kind # "exited" THEN FALSE
    ELSE IF o.rc # 0 THEN FALSE
    ELSE OutputValid(fs, size)

\* Mutation: the directory is left in place.
rmtree_noop(d) == d

\* handler.py:210  shutil.rmtree(tmpdir, ignore_errors=True)
rmtree(d) == "removed"

(***************************************************************************)
(* The handler, statement by statement.                                    *)
(***************************************************************************)
Env == <<eventIsDict, jobInput, audioFormat>>
Tools == <<calls, probeLog, transcode, modelRun, durations>>

\* handler.py:142  job_input = event.get('input', {})
GetInput ==
    /\ pc = "start"
    /\ IF eventIsDict
       THEN /\ pc' = "mkdtemp"
            /\ UNCHANGED response
       ELSE /\ pc' = OuterExcept("AttributeError").pc
            /\ response' = OuterExcept("AttributeError").response
    /\ UNCHANGED <<Env, Tools, tmpdir, files, outputSize, streamPos, downloads, got,
                   pending>>

\* handler.py:145  tmpdir = tempfile.mkdtemp()
MakeTmpdir ==
    /\ pc = "mkdtemp"
    /\ \E ok \in BOOLEAN :
         IF ok
         THEN /\ tmpdir' = "exists"
              /\ pc' = "get_image"
              /\ UNCHANGED response
         ELSE /\ pc' = OuterExcept("OSError").pc
              /\ response' = OuterExcept("OSError").response
              /\ UNCHANGED tmpdir
    /\ UNCHANGED <<Env, Tools, files, outputSize, streamPos, downloads, got, pending>>

\* handler.py:152-162 (which = "image") and 165-175 (which = "audio")
Acquire(which) ==
    LET in == Input[which] IN
    /\ pc = in.get
    /\ IF ~jobInput.isMap
       THEN \* 'image_base64' in job_input raises TypeError
            /\ pending' = Raise("TypeError")
            /\ pc' = "finally"
            /\ UNCHANGED <<files, downloads, got>>
       ELSE CASE Source(jobInput.keys, in.b64, in.url) = "base64" ->
                   \E o \in {"ok", "bad_base64", "write_error"} :
                      /\ files' = IF o = "bad_base64" THEN files
                                  ELSE files \cup {in.path}
                      /\ pending' = IF o = "ok" THEN pending ELSE Raise(o)
                      /\ pc' = IF o = "ok" THEN in.next ELSE "finally"
                      /\ got' = [got EXCEPT ![which] =
                                    IF o = "ok" THEN "decoded" ELSE "error"]
                      /\ UNCHANGED downloads
              [] Source(jobInput.keys, in.b64, in.url) = "url" ->
                   /\ downloads' = downloads \cup {which}
                   /\ pc' = in.req
                   /\ UNCHANGED <<files, pending, got>>
              [] OTHER ->
                   /\ pending' = Return(ErrorResponse(in.missing))
                   /\ pc' = "finally"
                   /\ UNCHANGED <<files, downloads, got>>
    /\ UNCHANGED <<Env, Tools, tmpdir, outputSize, streamPos, response>>

\* handler.py:24-28, 32-34: requests.get, then the status check and open()
DownloadRequest(which) ==
    LET in == Input[which] IN
    /\ pc = in.req
    /\ \E o \in {"200", "404", "exception"} :
         IF o = "200"
         THEN /\ files' = files \cup {in.path}
              /\ streamPos' = 0
              /\ pc' = in.body
              /\ UNCHANGED <<pending, got>>
         ELSE /\ pending' = Return(ErrorResponse(in.failed))
              /\ got' = [got EXCEPT ![which] = "failed"]
              /\ pc' = "finally"
              /\ UNCHANGED <<files, streamPos>>
    /\ UNCHANGED <<Env, Tools, tmpdir, outputSize, downloads, response>>

\* handler.py:29-30: one more chunk arrives and is written
DownloadChunk(which) ==
    /\ pc = Input[which].body
    /\ streamPos' = (streamPos + 1) % StreamPeriod
    /\ UNCHANGED <<Env, Tools, pc, tmpdir, files, outputSize, downloads, got,
                   pending, response>>

\* handler.py:29-31: the body ends, download_file returns True
DownloadEnd(which) ==
    /\ pc = Input[which].body
    /\ pc' = Input[which].next
    /\ got' = [got EXCEPT ![which] = "downloaded"]
    /\ UNCHANGED <<Env, Tools, tmpdir, files, outputSize, streamPos, downloads,
                   pending, response>>

\* handler.py:29-34: a read or a write raises, download_file returns False
DownloadAbort(which) ==
    /\ pc = Input[which].body
    /\ pending' = Return(ErrorResponse(Input[which].failed))
    /\ got' = [got EXCEPT ![which] = "failed"]
    /\ pc' = "finally"
    /\ UNCHANGED <<Env, Tools, tmpdir, files, outputSize, streamPos, downloads,
                   response>>

\* handler.py:177-179  sizes, then audio_duration = get_duration(audio_path)
ProbeInput ==
    /\ pc = "probe_input"
    /\ \E o \in ProbeOutcomes :
         /\ probeLog' = Append(probeLog, [path |-> audio_path, outcome |-> o,
                                          result |-> get_duration(o)])
         /\ durations' = [durations EXCEPT !.audio = get_duration(o)]
    /\ calls' = [calls EXCEPT !.probe = @ + 1]
    /\ pc' = "convert"
    /\ UNCHANGED <<Env, transcode, modelRun, tmpdir, files,
                   outputSize, streamPos, downloads, got, pending, response>>

\* handler.py:185 into run_hallo_inference, handler.py:66-72
Convert ==
    /\ pc = "convert"
    /\ IF ~EndsWithWav(audio_path)
       THEN \E o \in TranscodeOutcomes :
              /\ transcode' = o
              /\ calls' = [calls EXCEPT !.transcode = @ + 1]
              /\ files' = IF o.wrote THEN files \cup {wav_path} ELSE files
              /\ IF convert_audio_to_wav(o, files', wav_path)
                 THEN /\ pc' = "infer"
                      /\ UNCHANGED pending
                 ELSE /\ pending' = Return(ErrorResponse("Hallo inference failed"))
                      /\ pc' = "finally"
       ELSE /\ pc' = "infer"
            /\ UNCHANGED <<transcode, calls, files, pending>>
    /\ UNCHANGED <<Env, probeLog, modelRun, durations, tmpdir, outputSize,
                   streamPos, downloads, got, response>>

\* handler.py:74-118, and handler.py:185-186 on return
Infer ==
    /\ pc = "infer"
    /\ \E o \in ModelOutcomes :
         LET written == IF o.wrote THEN files \cup {output_path} ELSE files
             size == IF o.wrote THEN o.size ELSE outputSize
             cleaned == IF o.kind = "exited" /\ o.rc = 0 /\ wav_path # audio_path
                        THEN written \ {wav_path} ELSE written
         IN /\ modelRun' = o
            /\ calls' = [calls EXCEPT !.model = @ + 1]
            /\ files' = cleaned
            /\ outputSize' = size
            /\ IF InferenceResult(o, cleaned, size)
               THEN /\ pc' = "check_output"
                    /\ UNCHANGED pending
               ELSE /\ pending' = Return(ErrorResponse("Hallo inference failed"))
                    /\ pc' = "finally"
    /\ UNCHANGED <<Env, probeLog, transcode, durations, tmpdir,
                   streamPos, downloads, got, response>>

\* handler.py:189-193
ProbeOutput ==
    /\ pc = "check_output"
    /\ IF output_path \notin files
       THEN /\ pending' = Return(ErrorResponse("No output video generated"))
            /\ pc' = "finally"
            /\ UNCHANGED <<probeLog, durations, calls>>
       ELSE \E o \in ProbeOutcomes :
              /\ probeLog' = Append(probeLog, [path |-> output_path, outcome |-> o,
                                               result |-> get_duration(o)])
              /\ calls' = [calls EXCEPT !.probe = @ + 1]
              /\ durations' = [durations EXCEPT !.output = get_duration(o)]
              /\ pc' = "encode"
              /\ UNCHANGED pending
    /\ UNCHANGED <<Env, transcode, modelRun, tmpdir, files,
                   outputSize, streamPos, downloads, got, response>>

\* handler.py:198-206
Encode ==
    /\ pc = "encode"
    /\ \E ok \in BOOLEAN :
         pending' = IF ok THEN Return(SuccessResponse(durations.output, outputSize))
                    ELSE Raise("OSError")
    /\ pc' = "finally"
    /\ UNCHANGED <<Env, Tools, tmpdir, files, outputSize, streamPos, downloads, got,
                   response>>

\* handler.py:208-219: the finally block, then the return or the outer except
Finally ==
    /\ pc = "finally"
    /\ tmpdir' = rmtree(tmpdir)
    /\ files' = {}
    /\ IF pending.kind = "return"
       THEN /\ response' = pending.value
            /\ pc' = "done"
       ELSE /\ response' = OuterExcept(pending.value).response
            /\ pc' = OuterExcept(pending.value).pc
    /\ UNCHANGED <<Env, Tools, outputSize, streamPos, downloads, got, pending>>

Next ==
    \/ GetInput
    \/ MakeTmpdir
    \/ \E which \in {"image", "audio"} :
         \/ Acquire(which)
         \/ DownloadRequest(which)
         \/ DownloadChunk(which)
         \/ DownloadEnd(which)
         \/ DownloadAbort(which)
    \/ ProbeInput
    \/ Convert
    \/ Infer
    \/ ProbeOutput
    \/ Encode
    \/ Finally


Spec == Init /\ [][Next]_vars

\* handler is one synchronous thread: while a statement can run, one does.
LiveSpec == Spec /\ WF_vars(Next)
(***************************************************************************)
(* Properties.                                                             *)
(***************************************************************************)
Returned == pc \in {"done", "raised"}
IsError == "error" \in DOMAIN response /\ "video_base64" \notin DOMAIN response
IsSuccess == "video_base64" \in DOMAIN response
NoSubprocess == calls = [probe |-> 0, transcode |-> 0, model |-> 0]
WellFormed == eventIsDict /\ jobInput.isMap /\ tmpdir # "none"
ModelInvoked == modelRun.kind \in {"timeout", "exited"}
NoImageKey == {"image_base64", "image_url"} \cap jobInput.keys = {}
NoAudioKey == {"audio_base64", "audio_url"} \cap jobInput.keys = {}
Acquired(which) == got[which] \in {"decoded", "downloaded"}
ModelSucceeded ==
    modelRun.kind = "exited" /\ modelRun.rc = 0 /\ modelRun.wrote
    /\ modelRun.size > MIN_SIZE

C2_SuccessOnlyIfValidOutput ==
    /\ IsSuccess => ModelSucceeded
    /\ pc = "done" /\ (~modelRun.wrote \/ modelRun.size <= MIN_SIZE) => IsError

\* The model exits 0 and leaves exactly MIN_SIZE bytes: an error.
C2_Witness ==
    /\ pc = "done" /\ modelRun.kind = "exited" /\ modelRun.rc = 0
    /\ modelRun.wrote /\ modelRun.size = MIN_SIZE
    /\ response = ErrorResponse("Hallo inference failed")

\* C3: once the model has been invoked, ffmpeg was run exactly when the
\* supplied audio was not WAV, and WAV audio reached the model untranscoded.
C3_TranscodeIffNotWav ==
    ModelInvoked => (calls.transcode > 0 <=> audioFormat # "wav")

\* C4: a model subprocess that exits non-zero or times out gives the response
\* {'error': 'Hallo inference failed'}, whatever output file it left.
C4_FailedModelIsError ==
    pc = "done" /\ (modelRun.kind = "timeout"
                    \/ (modelRun.kind = "exited" /\ modelRun.rc # 0))
        => response = ErrorResponse("Hallo inference failed")

\* A failed model run that left an output file above the minimum size.
C4_Witness ==
    /\ pc = "done" /\ modelRun.kind \in {"timeout", "exited"} /\ modelRun.rc # 0
    /\ modelRun.wrote /\ modelRun.size > MIN_SIZE
    /\ response = ErrorResponse("Hallo inference failed")

\* C5: no exception reaches the caller, and the response returned has exactly
\* one of the keys 'error' and 'video_base64'.
C5_ExactlyOneKey ==
    /\ pc # "raised"
    /\ pc = "done" => Cardinality(DOMAIN response \cap {"error", "video_base64"}) = 1

\* An exception was raised inside the handler and came back as an error.
C5_Witness == pc = "done" /\ pending.kind = "raise" /\ IsError

\* C6 as stated: without an image key the answer is 'No image provided', with
\* an image key but no audio key it is 'No audio provided', and no subprocess
\* ran; taken for well-formed requests whose temporary directory was created
\* and during which nothing raised.
C6_MissingInputErrors ==
    pc = "done" /\ WellFormed /\ pending.kind = "return" =>
        /\ NoImageKey => response = ErrorResponse(Input.image.missing) /\ NoSubprocess
        /\ ~NoImageKey /\ NoAudioKey =>
               response = ErrorResponse(Input.audio.missing) /\ NoSubprocess

\* C6 amended: the 'No audio provided' answer requires that the image was
\* actually acquired (decoded and written, or downloaded).
C6_MissingInputErrorsAcquired ==
    pc = "done" /\ WellFormed =>
        /\ NoImageKey => response = ErrorResponse(Input.image.missing) /\ NoSubprocess
        /\ Acquired("image") /\ NoAudioKey =>
               response = ErrorResponse(Input.audio.missing) /\ NoSubprocess

\* A downloaded image and no audio key.
C6_Witness ==
    /\ pc = "done" /\ got.image = "downloaded" /\ NoAudioKey
    /\ response = ErrorResponse(Input.audio.missing)

TranscodeFailed ==
    \/ transcode.kind = "timeout"
    \/ transcode.kind = "exited" /\ (transcode.rc # 0 \/ ~transcode.wrote)

\* C7: a failed transcode (ffmpeg exits non-zero, times out, or leaves no
\* file) means the model is never invoked and the response is an error.
C7_FailedTranscodeStopsRequest ==
    TranscodeFailed => ~ModelInvoked /\ (pc = "done" => IsError)

\* C8: every invocation eventually returns, and no subprocess is started more
\* often than the straight-line code allows.
C8_EventuallyReturns ==
    /\ <>(pc = "done")
    /\ [](calls.probe <= 2 /\ calls.transcode <= 1 /\ calls.model <= 1)

ProbeFailed(o) == o.kind # "exited" \/ o.rc # 0 \/ ~IsNumeric(o.stdout)
ProbeUnreadable(o) == o.kind # "exited" \/ ~IsNumeric(o.stdout)

C10_Base64BeforeUrl ==
    \A which \in {"image", "audio"} :
        /\ which \in downloads =>
              Input[which].b64 \notin jobInput.keys /\ Input[which].url \in jobInput.keys
        /\ Acquired(which) /\ Input[which].b64 \in jobInput.keys => got[which] = "decoded"
        /\ got[which] = "failed" =>
              /\ NoSubprocess
              /\ pc = "done" => response = ErrorResponse(Input[which].failed)
              /\ which = "image" => got.audio = "none" /\ "audio" \notin downloads

\* Image given both ways and decoded, audio by URL only and its download failed.
C10_Witness ==
    /\ pc = "done"
    /\ {"image_base64", "image_url", "audio_url"} \subseteq jobInput.keys
    /\ got.image = "decoded" /\ "image" \notin downloads
    /\ got.audio = "failed"
    /\ response = ErrorResponse(Input.audio.failed)
====
